---- MODULE Spec2Model ----
(***************************************************************************)
(* The TapPostgres saga of the admin console                               *)
(* (admin-console/app/containers/TapPage/TapPostgres/saga.js).             *)
(*                                                                         *)
(* The root saga registers two takeLatest watchers.  Each dispatched       *)
(* trigger forks a worker generator (getStreams, updateStreamToReplicate)  *)
(* that issues one request, is suspended at the call effect, and on        *)
(* settlement of the request puts one action.  takeLatest cancels the      *)
(* previous worker of the same watcher when it is still running; a         *)
(* cancelled worker is never resumed, its request settles unobserved.      *)
(***************************************************************************)
EXTENDS Integers, Sequences, FiniteSets, TLC

\* ----------------------------------------------------------------- bounds
\* Number of triggers dispatched in one behaviour.
MaxTriggers == 3

\* ------------------------------------------------------------ input sets
LOAD_STREAMS == "LOAD_STREAMS"
UPDATE_STREAM_TO_REPLICATE == "UPDATE_STREAM_TO_REPLICATE"
Kinds == {LOAD_STREAMS, UPDATE_STREAM_TO_REPLICATE}

\* params: an insertion-ordered mapping, a sequence of <<key, value>> pairs
IncrementalParams == << <<"replication_method", "INCREMENTAL">> >>
EmptyParams == <<>>

\* What the HTTP collaborator can answer.
Payloads == {"A", "B"}
Errors == {"status500"}

\* the reload of scenario A
LoadTriggers ==
  { [type |-> LOAD_STREAMS, targetId |-> "t1", tapId |-> "tp1",
     streamId |-> "", params |-> EmptyParams] }
\* two edits that differ in every field but the tap
UpdateTriggers ==
  { [type |-> UPDATE_STREAM_TO_REPLICATE, targetId |-> "t1", tapId |-> "tp1",
     streamId |-> "s1", params |-> IncrementalParams],
    [type |-> UPDATE_STREAM_TO_REPLICATE, targetId |-> "t2", tapId |-> "tp1",
     streamId |-> "s2", params |-> EmptyParams] }
Triggers == LoadTriggers \cup UpdateTriggers

\* ------------------------------------------------------------------ state
VARIABLES
  watchers,   \* the trigger types a takeLatest watcher is registered for
  lastTask,   \* per watcher: the task it forked last (NoTask before the first)
  tasks,      \* forked worker tasks, in fork order
  requests,   \* outbound requests, in issue order
  events      \* actions put by workers, in put order

vars == <<watchers, lastTask, tasks, requests, events>>

NoTask == 0
NoOptions == [method |-> "", headers |-> <<>>, body |-> ""]

\* --------------------------------------------------------- action creators
streamsLoaded(streams) == [creator |-> "streamsLoaded", payload |-> streams]
streamsLoadedError(err) == [creator |-> "streamsLoadedError", payload |-> err]
updateStreamToReplicateDone(response) ==
  [creator |-> "updateStreamToReplicateDone", payload |-> response]
updateStreamToReplicateError(err) ==
  [creator |-> "updateStreamToReplicateError", payload |-> err]

\* ------------------------------------------------------------------ effects
put(a) == [effect |-> "put", action |-> a, url |-> "", options |-> NoOptions]
call(url, options) ==
  [effect |-> "call", action |-> [creator |-> "", payload |-> ""],
   url |-> url, options |-> options]

\* JSON.stringify of a flat mapping of strings to strings
RECURSIVE JSONMembers(_)
JSONMembers(m) ==
  IF m = <<>> THEN ""
  ELSE "\"" \o m[1][1] \o "\":\"" \o m[1][2] \o "\""
       \o (IF Len(m) > 1 THEN "," ELSE "") \o JSONMembers(Tail(m))
JSONStringify(m) == "{" \o JSONMembers(m) \o "}"

\* ------------------------------------------------------------ getStreams
getStreamsURL(action) ==
  "http://localhost:5000/targets/" \o action.targetId \o "/taps/"
    \o action.tapId \o "/streams"

\* the generator up to its first yield: the call effect it is suspended at
getStreamsStart(action) == call(getStreamsURL(action), NoOptions)

\* the success put followed by the error put
getStreamsSettledBoth(action, res) ==
  IF res.ok THEN << put(streamsLoaded(res.value)), put(streamsLoadedError(res.value)) >>
  ELSE << put(streamsLoadedError(res.value)) >>

\* a rejected request swallowed
getStreamsSettledSwallow(action, res) ==
  IF res.ok THEN << put(streamsLoaded(res.value)) >> ELSE << >>

\* a rejected request retried
getStreamsSettledRetry(action, res) ==
  IF res.ok THEN << put(streamsLoaded(res.value)) >>
  ELSE << call(getStreamsURL(action), NoOptions) >>

\* the caught error thrown again after the error put
getStreamsSettledRethrow(action, res) ==
  IF res.ok THEN << put(streamsLoaded(res.value)) >>
  ELSE << put(streamsLoadedError(res.value)),
          [effect |-> "raise", action |-> [creator |-> "", payload |-> res.value],
           url |-> "", options |-> NoOptions] >>

\* the generator resumed with the settled request: try / catch
getStreamsSettled(action, res) ==
  IF res.ok THEN << put(streamsLoaded(res.value)) >>
  ELSE << put(streamsLoadedError(res.value)) >>

\* ----------------------------------------------- updateStreamToReplicate
\* the URL of the stream list, without the stream
updateStreamToReplicateURLNoStream(action) ==
  "http://localhost:5000/targets/" \o action.targetId \o "/taps/"
    \o action.tapId \o "/streams"

updateStreamToReplicateURL(action) ==
  "http://localhost:5000/targets/" \o action.targetId \o "/taps/"
    \o action.tapId \o "/streams/" \o action.streamId

updateStreamToReplicateStart(action) ==
  call(updateStreamToReplicateURL(action),
       [method |-> "PATCH",
        headers |-> << <<"Content-Type", "application/json">> >>,
        body |-> JSONStringify(action.params)])

\* a rejected request reported as done
updateStreamToReplicateSettledAsDone(action, res) ==
  << put(updateStreamToReplicateDone(res.value)) >>

updateStreamToReplicateSettled(action, res) ==
  IF res.ok THEN << put(updateStreamToReplicateDone(res.value)) >>
  ELSE << put(updateStreamToReplicateError(res.value)) >>

\* --------------------------------------------------------- tapPostgresData
\* the worker saga each watcher forks
workerStart(action) ==
  IF action.type = LOAD_STREAMS THEN getStreamsStart(action)
  ELSE updateStreamToReplicateStart(action)

workerSettled(action, res) ==
  IF action.type = LOAD_STREAMS THEN getStreamsSettled(action, res)
  ELSE updateStreamToReplicateSettled(action, res)

\* a watcher slot shared by both trigger types
watcherShared(type) == LOAD_STREAMS

\* the watcher that takes a trigger of this type: one takeLatest per type
watcherOf(type) == type

\* no cancellation of the previous task
cancelNothing(ts, prev) == ts

\* takeLatest cancels the task it forked last if that is still running
cancelLast(ts, prev) ==
  IF prev # NoTask /\ ts[prev].status = "running"
  THEN [ts EXCEPT ![prev].status = "cancelled"]
  ELSE ts

\* a request whose URL carries a per-task cache buster
newRequestStamped(t, eff) ==
  [task |-> t, url |-> eff.url \o "?_=" \o ToString(t), options |-> eff.options,
   state |-> "pending", value |-> "", settledAt |-> 0]

newRequest(t, eff) ==
  [task |-> t, url |-> eff.url, options |-> eff.options,
   state |-> "pending", value |-> "", settledAt |-> 0]

\* both watchers are forked by the root saga before any trigger is dispatched
tapPostgresData == {LOAD_STREAMS, UPDATE_STREAM_TO_REPLICATE}

Init ==
  /\ watchers = tapPostgresData
  /\ lastTask = [w \in watchers |-> NoTask]
  /\ tasks = <<>>
  /\ requests = <<>>
  /\ events = <<>>

\* A trigger is dispatched: its watcher cancels its last task and forks a
\* worker, which runs to its call effect (the request is issued).
takeLatest(a) ==
  LET w == watcherOf(a.type)
      id == Len(tasks) + 1
  IN /\ Len(tasks) < MaxTriggers
     /\ w \in watchers
     /\ tasks' = Append(cancelLast(tasks, lastTask[w]),
                        [action |-> a, status |-> "running"])
     /\ lastTask' = [lastTask EXCEPT ![w] = id]
     /\ requests' = Append(requests, newRequest(id, workerStart(a)))
     /\ UNCHANGED <<watchers, events>>

SelectSeq2(s, kind) == SelectSeq(s, LAMBDA e : e.effect = kind)

RECURSIVE MapPuts(_, _)
MapPuts(t, effs) ==
  IF effs = <<>> THEN <<>>
  ELSE <<[task |-> t, action |-> effs[1].action]>> \o MapPuts(t, Tail(effs))

RECURSIVE MapCalls(_, _)
MapCalls(t, effs) ==
  IF effs = <<>> THEN <<>>
  ELSE <<newRequest(t, effs[1])>> \o MapCalls(t, Tail(effs))

\* Request r settles with res.  A running worker is resumed and its effects are
\* run: puts reach the store, a further call suspends it again.  An error that
\* escapes the worker aborts it and, through its watcher, the root saga: every
\* watcher ends and every running task is cancelled.  A cancelled worker is
\* not resumed.
Settle(r, res) ==
  LET t == requests[r].task
      settled == [requests EXCEPT ![r].state = IF res.ok THEN "resolved" ELSE "rejected",
                                  ![r].value = res.value,
                                  ![r].settledAt = Len(tasks)]
      effs == workerSettled(tasks[t].action, res)
      puts == SelectSeq2(effs, "put")
      calls == SelectSeq2(effs, "call")
      escaped == SelectSeq2(effs, "raise") # <<>>
  IN /\ requests[r].state = "pending"
     /\ IF tasks[t].status = "running"
        THEN /\ events' = events \o MapPuts(t, puts)
             /\ requests' = settled \o MapCalls(t, calls)
             /\ tasks' =
                  IF escaped
                  THEN [u \in DOMAIN tasks |->
                          IF u = t THEN [tasks[u] EXCEPT !.status = "aborted"]
                          ELSE IF tasks[u].status = "running"
                               THEN [tasks[u] EXCEPT !.status = "cancelled"]
                               ELSE tasks[u]]
                  ELSE [tasks EXCEPT ![t].status =
                          IF calls = <<>> THEN "done" ELSE "running"]
             /\ watchers' = IF escaped THEN {} ELSE watchers
        ELSE /\ requests' = settled
             /\ UNCHANGED <<tasks, events, watchers>>
     /\ UNCHANGED lastTask

Dispatch == \E a \in Triggers : takeLatest(a)
Resolve == \E r \in 1..Len(requests), p \in Payloads :
             Settle(r, [ok |-> TRUE, value |-> p])
Reject == \E r \in 1..Len(requests), e \in Errors :
            Settle(r, [ok |-> FALSE, value |-> e])

Next == Dispatch \/ Resolve \/ Reject

Spec == Init /\ [][Next]_vars

\* The fair specification: one trigger of each kind, one answer of each
\* outcome, and every issued request is eventually answered by the HTTP
\* collaborator.
LiveTriggers ==
  { a \in Triggers : a.targetId = "t1" }
LiveResults ==
  { [ok |-> TRUE, value |-> "A"], [ok |-> FALSE, value |-> "status500"] }

LiveDispatch == \E a \in LiveTriggers : takeLatest(a)
LiveSettle(r) ==
  /\ r \in 1..Len(requests)
  /\ \E res \in LiveResults : Settle(r, res)

LiveNext == LiveDispatch \/ \E r \in 1..MaxTriggers : LiveSettle(r)

LiveSpec ==
  Init /\ [][LiveNext]_vars /\ \A r \in 1..MaxTriggers : WF_vars(LiveSettle(r))

\* The request-shape specification: triggers whose every field varies, at most
\* MaxShapeTriggers of them, answered with one answer of each outcome.
MaxShapeTriggers == 2

KeyBasedParams ==
  << <<"replication_method", "INCREMENTAL">>, <<"replication_key", "id">> >>
ShapeTargetIds == {"t1", "t2"}
ShapeTapIds == {"tp1", "tp2"}
ShapeStreamIds == {"s1", "s2"}
ShapeParams == {EmptyParams, IncrementalParams, KeyBasedParams}
\* the taps edited, each under its own target
ShapeEditedTaps == { <<"t1", "tp1">>, <<"t2", "tp2">> }
ShapeTriggers ==
  { [type |-> LOAD_STREAMS, targetId |-> t, tapId |-> p,
     streamId |-> "", params |-> EmptyParams]
    : t \in ShapeTargetIds, p \in ShapeTapIds }
  \cup
  { [type |-> UPDATE_STREAM_TO_REPLICATE, targetId |-> tp[1], tapId |-> tp[2],
     streamId |-> s, params |-> q]
    : tp \in ShapeEditedTaps, s \in ShapeStreamIds, q \in ShapeParams }

ShapeDispatch ==
  \E a \in ShapeTriggers : Len(tasks) < MaxShapeTriggers /\ takeLatest(a)
ShapeSettle == \E r \in 1..Len(requests), res \in LiveResults : Settle(r, res)

ShapeNext == ShapeDispatch \/ ShapeSettle

ShapeSpec == Init /\ [][ShapeNext]_vars

\* utils/request hands url and options to fetch: without a method it is a GET
requestMethod(options) == IF options.method = "" THEN "GET" ELSE options.method

\* ------------------------------------------------------------- vocabulary
TaskIds == 1..Len(tasks)
KindOf(t) == tasks[t].action.type
EventsOf(t) == SelectSeq(events, LAMBDA e : e.task = t)
RequestsOf(t) == { r \in 1..Len(requests) : requests[r].task = t }
\* the request a task issued when it started
ReqOf(t) == CHOOSE r \in RequestsOf(t) : \A q \in RequestsOf(t) : r <= q
Pending(t) == requests[ReqOf(t)].state = "pending"
Settled(t) == requests[ReqOf(t)].state # "pending"
\* u was accepted while t's request was not yet settled
AcceptedBeforeSettled(u, t) ==
  /\ u > t
  /\ Pending(t) \/ requests[ReqOf(t)].settledAt >= u
\* a newer trigger of t's kind was accepted before t's request settled
Superseded(t) ==
  \E u \in TaskIds : KindOf(u) = KindOf(t) /\ AcceptedBeforeSettled(u, t)
OtherKind(k) == CHOOSE o \in Kinds : o # k
SuccessCreators == {"streamsLoaded", "updateStreamToReplicateDone"}
ErrorCreators == {"streamsLoadedError", "updateStreamToReplicateError"}

\* ------------------------------------------------------------------ claims

\* C1 (latest-wins): a task of whose kind a newer trigger was accepted before
\* its request settled never has an Outcome event, whatever the order and the
\* results of the settlements.
LatestWins == \A t \in TaskIds : Superseded(t) => EventsOf(t) = <<>>

\* C1 witness: T1 was superseded by T2, T1's request has settled (after T2 was
\* accepted), and T2 has emitted its Outcome.
LatestWinsWitness ==
  \E t1, t2 \in TaskIds :
    /\ t1 < t2 /\ KindOf(t1) = KindOf(t2)
    /\ Settled(t1) /\ requests[ReqOf(t1)].settledAt >= t2
    /\ EventsOf(t1) = <<>>
    /\ Len(EventsOf(t2)) = 1

\* C2 (kind independence): accepting a trigger of one kind leaves every task
\* of the other kind and the other kind's watcher as they were, and a task
\* whose request settles with no newer trigger of its own kind accepted emits
\* its Outcome in that step, however many triggers of the other kind came.
KindIndependence ==
  /\ [][ Len(tasks') = Len(tasks) + 1 =>
           /\ \A t \in TaskIds :
                KindOf(t) # tasks'[Len(tasks')].action.type => tasks'[t] = tasks[t]
           /\ LET o == OtherKind(tasks'[Len(tasks')].action.type)
              IN lastTask'[o] = lastTask[o] ]_vars
  /\ [][ \A t \in TaskIds :
           ( /\ Pending(t)
             /\ requests'[ReqOf(t)].state # "pending"
             /\ ~ \E u \in TaskIds : u > t /\ KindOf(u) = KindOf(t) )
           => Len(SelectSeq(events', LAMBDA e : e.task = t)) = Len(EventsOf(t)) + 1 ]_vars

\* C2 witness: a task has emitted its Outcome although a trigger of the other
\* kind was accepted while its request was pending.
KindIndependenceWitness ==
  \E t, u \in TaskIds :
    /\ KindOf(u) # KindOf(t)
    /\ Settled(t) /\ AcceptedBeforeSettled(u, t)
    /\ Len(EventsOf(t)) = 1

\* C3 (mutual exclusivity): every task has emitted at most one terminal event.
MutualExclusivity == \A t \in TaskIds : Len(EventsOf(t)) <= 1

\* C3 witness: one task has emitted a success event and another an error event.
MutualExclusivityWitness ==
  \E t, u \in TaskIds :
    /\ Len(EventsOf(t)) = 1 /\ EventsOf(t)[1].action.creator \in SuccessCreators
    /\ Len(EventsOf(u)) = 1 /\ EventsOf(u)[1].action.creator \in ErrorCreators

\* C4 (central invariant): for each trigger kind at most one task is active,
\* that is neither cancelled nor completed, and the step that accepts a trigger
\* cancels the task of its kind that was still running.
AtMostOneActive ==
  /\ [](\A k \in Kinds :
          Cardinality({ t \in TaskIds :
                          KindOf(t) = k /\ tasks[t].status = "running" }) <= 1)
  /\ [][ Len(tasks') = Len(tasks) + 1 =>
           \A t \in TaskIds :
             ( KindOf(t) = tasks'[Len(tasks')].action.type
               /\ tasks[t].status = "running" )
             => tasks'[t].status = "cancelled" ]_vars

\* C4 witness: a trigger was accepted while a task of its kind was pending; the
\* earlier task is cancelled with its request still in flight, the newer runs.
AtMostOneActiveWitness ==
  \E t, u \in TaskIds :
    /\ t < u /\ KindOf(t) = KindOf(u)
    /\ Pending(t) /\ tasks[t].status = "cancelled"
    /\ tasks[u].status = "running"


\* Scenario D: t1 edits stream s1, t2 edits stream s2, t2 is the next trigger of
\* the kind and was accepted before t1's request settled; both requests have
\* settled and no later trigger superseded t2.
ScenarioD(t1, t2) ==
  /\ KindOf(t1) = UPDATE_STREAM_TO_REPLICATE
  /\ KindOf(t2) = UPDATE_STREAM_TO_REPLICATE
  /\ tasks[t1].action.streamId = "s1"
  /\ tasks[t2].action.streamId = "s2"
  /\ ~ \E u \in TaskIds : t1 < u /\ u < t2 /\ KindOf(u) = UPDATE_STREAM_TO_REPLICATE
  /\ AcceptedBeforeSettled(t2, t1)
  /\ Settled(t1) /\ Settled(t2)
  /\ ~ Superseded(t2)

\* C5 as stated: in scenario D both updates produce their own Outcome.
ScenarioDBothOutcomes ==
  \A t1, t2 \in TaskIds :
    ScenarioD(t1, t2) => Len(EventsOf(t1)) = 1 /\ Len(EventsOf(t2)) = 1

\* C5 amended: in scenario D the update of s1 is superseded and produces no
\* Outcome; only the update of s2 produces one.
ScenarioDLatestOnly ==
  \A t1, t2 \in TaskIds :
    ScenarioD(t1, t2) => EventsOf(t1) = <<>> /\ Len(EventsOf(t2)) = 1

\* C5 witness: scenario D has run to the end.
ScenarioDWitness == \E t1, t2 \in TaskIds : ScenarioD(t1, t2)

\* C6 (liveness): when every issued request is eventually answered, each task
\* is eventually superseded or has emitted exactly one terminal event.
OutcomeEventually ==
  \A t \in 1..MaxTriggers :
    (t \in TaskIds) ~> (t \in TaskIds /\ (Superseded(t) \/ Len(EventsOf(t)) = 1))

\* C6 witness: a task that was never superseded has emitted its one event after
\* a rejected request, with a later trigger of the other kind accepted meanwhile.
OutcomeEventuallyWitness ==
  \E t \in TaskIds :
    /\ ~ Superseded(t) /\ Len(EventsOf(t)) = 1
    /\ requests[ReqOf(t)].state = "rejected"
    /\ Len(tasks) = MaxTriggers

\* the event a task owes for its settled request
Owed(t) ==
  LET r == requests[ReqOf(t)]
      creator ==
        IF KindOf(t) = LOAD_STREAMS
        THEN (IF r.state = "resolved" THEN "streamsLoaded" ELSE "streamsLoadedError")
        ELSE (IF r.state = "resolved" THEN "updateStreamToReplicateDone"
              ELSE "updateStreamToReplicateError")
  IN [task |-> t, action |-> [creator |-> creator, payload |-> r.value]]

\* C7 (pass-through): a task that was not superseded and whose request has
\* settled has emitted exactly the event of its own kind that carries what the
\* collaborator answered: the success event for a resolved request, the error
\* event for a rejected one; no other event exists.
PassThrough ==
  /\ \A t \in TaskIds :
       (Settled(t) /\ ~ Superseded(t)) => EventsOf(t) = << Owed(t) >>
  /\ \A i \in 1..Len(events) :
       Settled(events[i].task) /\ events[i] = Owed(events[i].task)

\* C7 witness: an update answered with status 500 has emitted
\* updateStreamToReplicateError, and a load answered with B has emitted
\* streamsLoaded(B).
PassThroughWitness ==
  /\ \E i \in 1..Len(events) :
       events[i].action =
         [creator |-> "updateStreamToReplicateError", payload |-> "status500"]
  /\ \E i \in 1..Len(events) :
       events[i].action = [creator |-> "streamsLoaded", payload |-> "B"]

\* C8 (frame of a stale resolution): the step in which the request of a
\* superseded task settles leaves the emitted events and both watchers'
\* current tasks unchanged.
StaleResolutionFrame ==
  [][ \A t \in TaskIds :
        ( /\ Pending(t)
          /\ requests'[ReqOf(t)].state # "pending"
          /\ Superseded(t) )
        => /\ events' = events
           /\ lastTask' = lastTask
           /\ tasks' = tasks ]_vars

\* C8 witness: the request of a superseded task has settled, once resolved and
\* once rejected.
StaleResolutionWitness ==
  /\ \E t \in TaskIds :
       Superseded(t) /\ requests[ReqOf(t)].state = "resolved"
  /\ \E t \in TaskIds :
       Superseded(t) /\ requests[ReqOf(t)].state = "rejected"

\* C9 (current-task marker): a watcher's current task changes only in the step
\* that accepts a trigger of that watcher's kind, and then to the new task.
MarkerOnlyOnAccept ==
  [][ \A k \in Kinds :
        lastTask'[k] # lastTask[k]
        => /\ Len(tasks') = Len(tasks) + 1
           /\ tasks'[Len(tasks')].action.type = k
           /\ lastTask'[k] = Len(tasks') ]_vars

\* C9 witness: both markers are set, Outcomes were emitted and a stale request
\* has settled.
MarkerOnlyOnAcceptWitness ==
  /\ \A k \in Kinds : lastTask[k] # NoTask
  /\ events # <<>>
  /\ \E t \in TaskIds : Superseded(t) /\ Settled(t)

\* C10 (one request per trigger): every task has issued exactly one request,
\* so the requests issued are as many as the triggers accepted.
OneRequestPerTrigger ==
  /\ Len(requests) = Len(tasks)
  /\ \A t \in TaskIds : Cardinality(RequestsOf(t)) = 1

\* C10 witness: two requests of one kind are in flight together, and a load
\* whose request was rejected has emitted its error event.
OneRequestPerTriggerWitness ==
  /\ \E t, u \in TaskIds :
       t < u /\ KindOf(t) = KindOf(u) /\ Pending(t) /\ Pending(u)
  /\ \E t \in TaskIds :
       /\ KindOf(t) = LOAD_STREAMS
       /\ requests[ReqOf(t)].state = "rejected"
       /\ Len(EventsOf(t)) = 1


\* the path of a URL of the API's origin
Origin == "http://localhost:5000"
PathOf(url) == SubSeq(url, Len(Origin) + 1, Len(url))
\* the JSON text of each params mapping
ExpectedJSON(params) ==
  CASE params = EmptyParams -> "{}"
    [] params = IncrementalParams -> "{\"replication_method\":\"INCREMENTAL\"}"
    [] params = KeyBasedParams ->
         "{\"replication_method\":\"INCREMENTAL\",\"replication_key\":\"id\"}"

\* C11 (request shape): every task's request is built from its own trigger:
\* a load is a GET of /targets/{targetId}/taps/{tapId}/streams, an update a
\* PATCH of /targets/{targetId}/taps/{tapId}/streams/{streamId} with the header
\* Content-Type: application/json and the JSON text of its params as body.
RequestShape ==
  \A t \in TaskIds :
    LET a == tasks[t].action
        r == requests[ReqOf(t)]
    IN /\ SubSeq(r.url, 1, Len(Origin)) = Origin
       /\ IF a.type = LOAD_STREAMS
          THEN /\ requestMethod(r.options) = "GET"
               /\ PathOf(r.url) =
                    "/targets/" \o a.targetId \o "/taps/" \o a.tapId \o "/streams"
          ELSE /\ requestMethod(r.options) = "PATCH"
               /\ PathOf(r.url) =
                    "/targets/" \o a.targetId \o "/taps/" \o a.tapId
                      \o "/streams/" \o a.streamId
               /\ r.options.headers = << <<"Content-Type", "application/json">> >>
               /\ r.options.body = ExpectedJSON(a.params)

\* C11 witness: two updates that differ in every field have issued their
\* requests, the earlier one superseded and the later one with two params.
RequestShapeWitness ==
  \E t, u \in TaskIds :
    /\ t < u
    /\ KindOf(t) = UPDATE_STREAM_TO_REPLICATE /\ KindOf(u) = UPDATE_STREAM_TO_REPLICATE
    /\ tasks[t].action.targetId # tasks[u].action.targetId
    /\ tasks[t].action.tapId # tasks[u].action.tapId
    /\ tasks[t].action.streamId # tasks[u].action.streamId
    /\ tasks[t].action.params = IncrementalParams
    /\ tasks[u].action.params = KeyBasedParams
    /\ Superseded(t) /\ Settled(t)


CompletedKeepsOutcome ==
  /\ [](\A t \in TaskIds :
          (Settled(t) /\ ~ Superseded(t)) => Len(EventsOf(t)) = 1)
  /\ [][ /\ Len(events') >= Len(events)
         /\ SubSeq(events', 1, Len(events)) = events ]_vars
  /\ []((\A t \in TaskIds : Settled(t) /\ ~ Superseded(t))
          => Len(events) = Len(tasks))

\* C13 witness: MaxTriggers triggers of one kind, each accepted after the task
\* before it had completed, have yielded MaxTriggers Outcomes.
CompletedKeepsOutcomeWitness ==
  /\ Len(tasks) = MaxTriggers
  /\ \A t \in TaskIds :
       KindOf(t) = LOAD_STREAMS /\ Settled(t) /\ ~ Superseded(t)
  /\ Len(events) = MaxTriggers


\* C14 (ordering): the events of one kind appear in the order of the triggers
\* that caused them, and no step emits an event for a task once a later trigger
\* of its kind has been accepted.
OutcomesInTriggerOrder ==
  /\ [](\A i, j \in 1..Len(events) :
          (i < j /\ KindOf(events[i].task) = KindOf(events[j].task))
          => events[i].task < events[j].task)
  /\ [][ \A t \in TaskIds :
           Len(SelectSeq(events', LAMBDA e : e.task = t)) > Len(EventsOf(t))
           => ~ \E u \in TaskIds : u > t /\ KindOf(u) = KindOf(t) ]_vars

\* C14 witness: of three triggers of one kind the first and the third have
\* emitted, in that order; the second was superseded and its request settled.
OutcomesInTriggerOrderWitness ==
  \E t, s, u \in TaskIds :
    /\ t < s /\ s < u
    /\ KindOf(t) = KindOf(s) /\ KindOf(s) = KindOf(u)
    /\ Superseded(s) /\ Settled(s)
    /\ \E i, j \in 1..Len(events) :
         i < j /\ events[i].task = t /\ events[j].task = u


\* C15 (responsiveness): both watchers are registered in every reachable
\* state; while the bound on triggers is not reached every trigger of either
\* kind can be accepted; and the accepting step starts a running task and
\* issues its request.
StaysResponsive ==
  /\ [](watchers = Kinds)
  /\ [](Len(tasks) < MaxTriggers => \A a \in Triggers : ENABLED takeLatest(a))
  /\ [][ Len(tasks') = Len(tasks) + 1 =>
           /\ tasks'[Len(tasks')].status = "running"
           /\ Len(requests') = Len(requests) + 1
           /\ requests'[Len(requests')].task = Len(tasks')
           /\ requests'[Len(requests')].state = "pending" ]_vars

\* C15 witness: after a supersession, the stale settlement of the superseded
\* task and a failure Outcome, a further trigger was accepted; its task runs
\* with its request in flight.
StaysResponsiveWitness ==
  /\ tasks # <<>>
  /\ LET n == Len(tasks)
     IN /\ tasks[n].status = "running" /\ Pending(n)
        /\ \E t \in TaskIds :
             /\ Superseded(t) /\ Settled(t)
             /\ requests[ReqOf(t)].settledAt < n
        /\ \E i \in 1..Len(events) :
             /\ events[i].action.creator \in ErrorCreators
             /\ requests[ReqOf(events[i].task)].settledAt < n

====
